---- MODULE Spec2Model ----
(***************************************************************************)
(* A model of unduck's bang resolution and redirect engine and of the      *)
(* local search-history store behind it.                                   *)
(*                                                                         *)
(* The repository holds four revisions of the entry point, each a complete *)
(* program of its own:                                                     *)
(*   "gen"    src/src/main.ts 1-1119     generateSearchUrl + lazy-open DB  *)
(*   "init"   src/src/main.ts 1121-1903  async getBangredirectUrl, init()  *)
(*   "third"  src/src/main.ts 1905-2685  doRedirect with startsWith("!")   *)
(*   "inline" src/unnamed/part_002       getBangredirectUrl, lookups inline*)
(* The variable `variant` fixes which revision a behaviour runs.           *)
(*                                                                         *)
(* Four specifications share the variables:                                *)
(*   Spec       a page load: resolution, history write, navigation         *)
(*   SpecStore  the operations of SearchHistoryDB, one step each           *)
(*   SpecBangs  the add-bang form and the delete buttons, from an empty    *)
(*              custom-bang table                                          *)
(*   SpecAsync  the operations of SearchHistoryDB split at their awaits    *)
(*              and request callbacks: connection requests in flight and   *)
(*              transactions queued in the storage engine                  *)
(*                                                                         *)
(* Strings are sequences of one-character strings.  A URL or URL template  *)
(* is a sequence whose literal part before the term is one opaque symbol   *)
(* (for example "https://www.google.com/search?q=") and whose placeholder  *)
(* "{{{s}}}" is one symbol.                                                *)
(***************************************************************************)
EXTENDS Integers, Sequences, FiniteSets, TLC

VARIABLES
    variant,        \* which revision of the entry point runs
    lsDefaultBang,  \* localStorage "default-bang": [present, text]
    customBangs,    \* localStorage "custom-bangs": sequence of [t, u]
    idbFails,       \* TRUE iff indexedDB.open fires onerror
    dbOpen,         \* SearchHistoryDB.db is set (and isOpen)
    records,        \* the history object store: set of records
    nextId,         \* the store's auto-increment key generator
    now,            \* Date.now()
    pc,             \* where the page is: "start", "writing", "done"
    q,              \* the "q" parameter of this page load: [present, text]
    searchUrl,      \* the URL the resolver computed (<<>> is null)
    navigatedTo,    \* the URL handed to window.location (<<>>: none)
    dashboard,      \* noSearchDefaultPageRender has run
    addCalls,       \* addSearch calls made by this page load, in order
    pending,        \* addSearch calls whose store transaction has not run
    schema,         \* the database on disk: [version, stores]
    requests,       \* indexedDB.open requests this store instance has issued
    handle,         \* the request whose IDBDatabase is held in this.db (0: null)
    result,         \* what the last store operation resolved with
    lastOp,         \* the last store operation: name, argument, time, state before
    calls,          \* store operations invoked and not yet settled, in call order
    txs             \* transactions created and not yet finished, in creation order

\* what only the store specifications observe
storeVars == << schema, requests, handle, result, lastOp, calls, txs >>

\* what only the page specification changes
pageVars == << lsDefaultBang, customBangs, pc, q, searchUrl, navigatedTo, dashboard,
               addCalls, pending >>

vars == << variant, lsDefaultBang, customBangs, idbFails, dbOpen, records,
           nextId, now, pc, q, searchUrl, navigatedTo, dashboard, addCalls,
           pending, schema, requests, handle, result, lastOp, calls, txs >>

-----------------------------------------------------------------------------
(* Bounds of the model *)

\* longest "q" parameter a page load is given
MaxLen == 4
\* the clock stops advancing at this value
MaxTime == 2

\* characters a "q" parameter is made of
Chars == {"!", " ", "/", "g", "G", "c"}

Variants == {"gen", "init", "third", "inline"}

-----------------------------------------------------------------------------
(* Strings *)

Null == << >>

RECURSIVE StringsUpTo(_)
StringsUpTo(n) ==
    IF n = 0 THEN { << >> }
    ELSE LET shorter == StringsUpTo(n - 1)
         IN  shorter \cup { Append(s, c) : s \in { t \in shorter : Len(t) = n - 1 }, c \in Chars }

IsSpace(c) == c = " "

\* String.prototype.toLowerCase, one character
lowerChar(c) == IF c = "G" THEN "g" ELSE IF c = "C" THEN "c" ELSE c

toLowerCase(s) == [ i \in 1..Len(s) |-> lowerChar(s[i]) ]

\* String.prototype.trim
trim(s) ==
    LET idx == { i \in 1..Len(s) : ~IsSpace(s[i]) }
    IN  IF idx = {} THEN << >>
        ELSE LET lo == CHOOSE i \in idx : \A j \in idx : i <= j
                 hi == CHOOSE i \in idx : \A j \in idx : i >= j
             IN  SubSeq(s, lo, hi)

-----------------------------------------------------------------------------
(* URL encoding and templates *)

\* encodeURIComponent, one character: letters and "!" are unreserved
encodeChar(c) ==
    IF c = " " THEN << "%", "2", "0" >>
    ELSE IF c = "/" THEN << "%", "2", "F" >>
    ELSE << c >>

RECURSIVE encodeURIComponent(_)
encodeURIComponent(s) ==
    IF s = << >> THEN << >>
    ELSE encodeChar(Head(s)) \o encodeURIComponent(Tail(s))

\* .replace(/%2F/g, "/")
RECURSIVE replaceSlash(_)
replaceSlash(s) ==
    IF Len(s) >= 3 /\ s[1] = "%" /\ s[2] = "2" /\ s[3] = "F"
    THEN << "/" >> \o replaceSlash(SubSeq(s, 4, Len(s)))
    ELSE IF s = << >> THEN << >>
    ELSE << Head(s) >> \o replaceSlash(Tail(s))

Placeholder == "{{{s}}}"

\* template.replace("{{{s}}}", term): the first occurrence only
replacePlaceholder(template, term) ==
    LET idx == { i \in 1..Len(template) : template[i] = Placeholder }
    IN  IF idx = {} THEN template
        ELSE LET k == CHOOSE i \in idx : \A j \in idx : i <= j
             IN  SubSeq(template, 1, k - 1) \o term \o SubSeq(template, k + 1, Len(template))

GoogleSearch == "https://www.google.com/search?q="

\* new URL(url) does not throw: the model's URLs are valid iff they start
\* with a scheme-and-host symbol
ValidOrigins == { GoogleSearch, "https://en.wikipedia.org/w/index.php?search=",
                  "https://c.example/search?q=" }

isValidUrl(url) == url # << >> /\ url[1] \in ValidOrigins

-----------------------------------------------------------------------------
(* Bang tables *)

\* the built-in table of ./bang
bangs == << [ t |-> << "g" >>, u |-> << GoogleSearch, Placeholder >> ],
            [ t |-> << "w" >>, u |-> << "https://en.wikipedia.org/w/index.php?search=", Placeholder >> ] >>

NotFound == [ found |-> FALSE, t |-> << >>, u |-> << >> ]

\* Array.prototype.find: the first entry among those the predicate holds
\* of (given by their indexes), or undefined
find(table, hits) ==
    IF hits = {} THEN NotFound
    ELSE LET k == CHOOSE i \in hits : \A j \in hits : i <= j
         IN  [ found |-> TRUE, t |-> table[k].t, u |-> table[k].u ]

\* a resolver that ignores the persisted default-bang slot
LS_DEFAULT_BANG_ignoresSlot(ls) == << "g" >>

\* localStorage.getItem("default-bang") ?? "g"
LS_DEFAULT_BANG(ls) == IF ls.present THEN ls.text ELSE << "g" >>

\* const defaultBang = bangs.find(...): case-insensitive in "gen" and
\* "inline", exact in "init" and "third"
defaultBang(v, ls) ==
    IF v \in {"gen", "inline"}
    THEN find(bangs, { i \in 1..Len(bangs) :
                         toLowerCase(bangs[i].t) = toLowerCase(LS_DEFAULT_BANG(ls)) })
    ELSE find(bangs, { i \in 1..Len(bangs) : bangs[i].t = LS_DEFAULT_BANG(ls) })

-----------------------------------------------------------------------------
(* The bang token *)

\* query.match(/!(\S+)/): the leftmost "!" followed by a non-space
\* character, extended greedily over non-space characters
bangMatch(s) ==
    LET starts == { i \in 1..(Len(s) - 1) : s[i] = "!" /\ ~IsSpace(s[i + 1]) }
    IN  IF starts = {} THEN [ found |-> FALSE, first |-> 0, last |-> 0 ]
        ELSE LET i == CHOOSE k \in starts : \A j \in starts : k <= j
                 ends == { e \in (i + 1)..Len(s) : \A m \in (i + 1)..e : ~IsSpace(s[m]) }
                 e == CHOOSE k \in ends : \A j \in ends : k >= j
             IN  [ found |-> TRUE, first |-> i, last |-> e ]

\* query.replace(bangMatch[0], ''): the matched token cut out
removeToken(s, m) == SubSeq(s, 1, m.first - 1) \o SubSeq(s, m.last + 1, Len(s))

\* query.replace(/!\S+\s*/i, ""): the token and the white space after it
removeTokenAndSpace(s) ==
    LET m == bangMatch(s)
    IN  IF ~m.found THEN s
        ELSE LET after == { e \in m.last..Len(s) : \A k \in (m.last + 1)..e : IsSpace(s[k]) }
                 e == CHOOSE k \in after : \A j \in after : k >= j
             IN  SubSeq(s, 1, m.first - 1) \o SubSeq(s, e + 1, Len(s))

-----------------------------------------------------------------------------
(* Resolution, revision "gen": src/src/main.ts 936-1024 *)

\* an addSearch(query, bangUsed) call; bangUsed << >> when not passed
Call(query, bangUsed) == [ query |-> query, bangUsed |-> bangUsed ]

\* the "q" parameter read without trim()
trimmedQuery_untrimmed(param) == IF param.present THEN param.text ELSE << >>

\* the "q" parameter after ?.trim(); an absent parameter is falsy like ""
trimmedQuery(param) == IF param.present THEN trim(param.text) ELSE << >>

\* generateSearchUrl(query, bangTrigger?); bangTrigger << >> is falsy
generateSearchUrl(ls, customs, query, bangTrigger) ==
    LET customBang == find(customs, { i \in 1..Len(customs) :
                               toLowerCase(customs[i].t) = toLowerCase(bangTrigger) })
        bang == find(bangs, { i \in 1..Len(bangs) :
                               /\ bangs[i].t # << >>
                               /\ toLowerCase(bangs[i].t) = toLowerCase(bangTrigger) })
        def == defaultBang("gen", ls)
        term == replaceSlash(encodeURIComponent(query))
    IN  IF query = << >> THEN Null
        ELSE IF bangTrigger # << >> /\ customBang.found
             THEN replacePlaceholder(customBang.u, term)
        ELSE IF bangTrigger # << >> /\ bang.found
             THEN replacePlaceholder(bang.u, term)
        ELSE IF def.found
             THEN replacePlaceholder(def.u, term)
        ELSE << GoogleSearch >> \o encodeURIComponent(query)

\* getBangredirectUrl(): the URL returned and the addSearch calls made
getBangredirectUrl_gen(ls, customs, param) ==
    LET query == trimmedQuery(param)
        m == bangMatch(query)
        bangTrigger == toLowerCase(SubSeq(query, m.first + 1, m.last))
        searchTerm == trim(removeToken(query, m))
        withBang == generateSearchUrl(ls, customs, searchTerm, bangTrigger)
        plain == generateSearchUrl(ls, customs, query, << >>)
        def == defaultBang("gen", ls)
        bangUsed == IF def.found THEN def.t ELSE << "g" >>
    IN  IF query = << >> THEN [ url |-> Null, adds |-> << >> ]
        ELSE IF m.found /\ withBang # Null
             THEN [ url |-> withBang, adds |-> << Call(searchTerm, bangTrigger) >> ]
        ELSE IF plain # Null
             THEN [ url |-> plain, adds |-> << Call(query, bangUsed) >> ]
        ELSE [ url |-> Null, adds |-> << >> ]

\* verifyClientSideRedirect(url): new URL(url) must not throw
verifyClientSideRedirect(url) == isValidUrl(url)

-----------------------------------------------------------------------------
(* Resolution, revision "inline": src/unnamed/part_002 788-858 *)

getBangredirectUrl_inline(ls, customs, param) ==
    LET query == trimmedQuery(param)
        m == bangMatch(query)
        bangTrigger == toLowerCase(SubSeq(query, m.first + 1, m.last))
        searchTerm == trim(removeToken(query, m))
        customBang == find(customs, { i \in 1..Len(customs) :
                               toLowerCase(customs[i].t) = bangTrigger })
        bang == find(bangs, { i \in 1..Len(bangs) :
                               bangs[i].t # << >> /\ toLowerCase(bangs[i].t) = bangTrigger })
        def == defaultBang("inline", ls)
        term == replaceSlash(encodeURIComponent(searchTerm))
    IN  IF query = << >> THEN [ url |-> Null, adds |-> << >> ]
        ELSE IF m.found /\ customBang.found
             THEN [ url |-> replacePlaceholder(customBang.u, term),
                    adds |-> << Call(searchTerm, customBang.t) >> ]
        ELSE IF m.found /\ bang.found
             THEN [ url |-> replacePlaceholder(bang.u, term),
                    adds |-> << Call(searchTerm, bang.t) >> ]
        ELSE IF def.found
             THEN [ url |-> replacePlaceholder(def.u, replaceSlash(encodeURIComponent(query))),
                    adds |-> << Call(query, def.t) >> ]
        ELSE [ url |-> << GoogleSearch >> \o encodeURIComponent(query),
               adds |-> << Call(query, << "g" >>) >> ]

-----------------------------------------------------------------------------
(* Resolution, revision "init": src/src/main.ts 1861-1888 *)

\* getBangredirectUrl() up to its await: the URL computed and the
\* addSearch call it is about to await
getBangredirectUrl_init(ls, customs, param) ==
    LET query == trimmedQuery(param)
        m == bangMatch(query)
        bangCandidate == toLowerCase(SubSeq(query, m.first + 1, m.last))
        allBangs == bangs \o customs
        found == find(allBangs, { i \in 1..Len(allBangs) :
                                   m.found /\ toLowerCase(allBangs[i].t) = bangCandidate })
        selectedBang == IF found.found THEN found ELSE defaultBang("init", ls)
        cleanQuery == trim(removeTokenAndSpace(query))
        url == IF selectedBang.found
               THEN replacePlaceholder(selectedBang.u, replaceSlash(encodeURIComponent(cleanQuery)))
               ELSE Null
    IN  IF query = << >> THEN [ url |-> Null, adds |-> << >> ]
        ELSE IF url = Null THEN [ url |-> Null, adds |-> << >> ]
        ELSE [ url |-> url, adds |-> << Call(query, << >>) >> ]

-----------------------------------------------------------------------------
(* Resolution, revision "third": src/src/main.ts 2643-2682 *)

\* query.substring(1).split(" ")[0]
firstWord(s) ==
    LET spaces == { i \in 1..Len(s) : IsSpace(s[i]) }
    IN  IF spaces = {} THEN s
        ELSE SubSeq(s, 1, (CHOOSE i \in spaces : \A j \in spaces : i <= j) - 1)

\* doRedirect(): the URL assigned to window.location.href, the addSearch
\* call, and whether the dashboard is rendered
doRedirect_third(ls, customs, param) ==
    LET query == IF param.present THEN param.text ELSE << >>
        isBang == query # << >> /\ query[1] = "!"
        bangTrigger == firstWord(SubSeq(query, 2, Len(query)))
        searchTerm == trim(SubSeq(query, Len(bangTrigger) + 2, Len(query)))
        customBang == find(customs, { i \in 1..Len(customs) : customs[i].t = bangTrigger })
        bang == find(bangs, { i \in 1..Len(bangs) : bangs[i].t = bangTrigger })
        def == defaultBang("third", ls)
    IN  IF query = << >> THEN [ url |-> Null, adds |-> << >>, dash |-> TRUE ]
        ELSE [ url |-> IF isBang /\ customBang.found
                         THEN replacePlaceholder(customBang.u, encodeURIComponent(searchTerm))
                       ELSE IF isBang /\ bang.found
                         THEN replacePlaceholder(bang.u, encodeURIComponent(searchTerm))
                       ELSE IF def.found
                         THEN replacePlaceholder(def.u, encodeURIComponent(query))
                       ELSE Null,
               adds |-> << Call(query, << >>) >>,
               dash |-> FALSE ]

-----------------------------------------------------------------------------
(* The custom-bang table: validation and mutation *)

\* the longest custom-bang table a behaviour builds
MaxBangs == 3

\* values typed into the trigger and URL fields of the add-bang form
TriggerInputs == { << "c" >>, << "G" >> }
UrlInputs == { << "https://c.example/search?q=", Placeholder >> }

Letters == { "g", "G", "c", "C", "w", "z" }

\* /^[a-z0-9]+$/i.test(trigger)
isAlphanumeric(s) == s # << >> /\ \A i \in 1..Len(s) : s[i] \in Letters

\* url.includes("{{{s}}}")
includesPlaceholder(u) == \E i \in 1..Len(u) : u[i] = Placeholder

existsTrigger(table, trigger) ==
    \E i \in 1..Len(table) : toLowerCase(table[i].t) = toLowerCase(trigger)

\* validateBangTrigger(trigger).isValid, revisions "init" and "third"
validateBangTrigger(customs, trigger) ==
    IF trigger = << >> THEN TRUE
    ELSE IF ~isAlphanumeric(trigger) THEN FALSE
    ELSE ~existsTrigger(bangs \o customs, trigger)

\* validateBangUrl(url).isValid, revisions "init" and "third"
validateBangUrl(url) ==
    IF url = << >> THEN TRUE
    ELSE IF ~includesPlaceholder(url) THEN FALSE
    ELSE isValidUrl(replacePlaceholder(url, << "t", "e", "s", "t" >>))

\* validateForm(), revision "gen"
validateForm(customs, trigger, url) ==
    /\ trigger # << >>
    /\ (existsTrigger(customs, trigger) \/ ~existsTrigger(bangs, trigger))
    /\ url # << >>
    /\ includesPlaceholder(url)

\* addCustomBang(trigger, urlTemplate), revisions "gen" and "inline"
addCustomBang(customs, trigger, url) ==
    LET idx == { i \in 1..Len(customs) : toLowerCase(customs[i].t) = toLowerCase(trigger) }
    IN  IF idx # {}
        THEN [ customs EXCEPT ![CHOOSE i \in idx : \A j \in idx : i <= j] = [ t |-> trigger, u |-> url ] ]
        ELSE Append(customs, [ t |-> trigger, u |-> url ])

\* the table after the add-bang form is submitted with the given values;
\* the form of "init" and "third" has both fields `required`, so the
\* browser does not submit it while one of them is empty
saveBang(v, customs, rawTrigger, rawUrl) ==
    LET trigger == trim(rawTrigger)
        url == trim(rawUrl)
        required == rawTrigger # << >> /\ rawUrl # << >>
    IN  CASE v = "gen" ->
               IF validateForm(customs, trigger, url)
               THEN addCustomBang(customs, trigger, url) ELSE customs
          [] v = "inline" ->
               IF trigger # << >> /\ url # << >>
               THEN addCustomBang(customs, trigger, url) ELSE customs
          [] v = "init" ->
               IF /\ required
                  /\ trigger # << >> /\ url # << >>
                  /\ validateBangTrigger(customs, trigger) /\ validateBangUrl(url)
               THEN Append(customs, [ t |-> trigger, u |-> url ]) ELSE customs
          [] v = "third" ->
               IF required /\ validateBangTrigger(customs, trigger) /\ validateBangUrl(url)
               THEN Append(customs, [ t |-> trigger, u |-> url ]) ELSE customs

\* the table after the delete button of `trigger` is clicked
deleteCustomBang(v, customs, trigger) ==
    LET Keep(b) == IF v \in {"gen", "inline"}
                   THEN toLowerCase(b.t) # toLowerCase(trigger)
                   ELSE b.t # trigger
    IN  SelectSeq(customs, Keep)

-----------------------------------------------------------------------------
(* The history store *)

\* store.add({query, timestamp: Date.now(), bangUsed})
addRecord(recs, id, call, time) ==
    recs \cup { [ id |-> id, query |-> call.query, timestamp |-> time, bangUsed |-> call.bangUsed ] }

\* an addSearch that replaces the records holding the same query text
addSearch_insert_replacing(recs, id, call, time) ==
    [ records |-> addRecord({ r \in recs : r.query # call.query }, id, call, time),
      nextId |-> id + 1 ]

\* the store after addSearch's transaction, always-insert ("gen", "inline")
addSearch_insert(recs, id, call, time) ==
    [ records |-> addRecord(recs, id, call, time), nextId |-> id + 1 ]

\* an addSearch that adds a record whether or not the query is stored
addSearch_dedupe_alwaysAdding(recs, id, call, time) ==
    [ records |-> addRecord(recs, id, call, time), nextId |-> id + 1 ]

\* the store after addSearch's transaction, dedupe-on-write ("init",
\* "third"): the first record, in key order, with the same query text gets
\* the current time; otherwise a record is added
addSearch_dedupe(recs, id, call, time) ==
    LET same == { r \in recs : r.query = call.query }
    IN  IF same # {}
        THEN LET existingItem == CHOOSE r \in same : \A o \in same : r.id <= o.id
             IN  [ records |-> (recs \ { existingItem })
                                 \cup { [ existingItem EXCEPT !.timestamp = time ] },
                   nextId |-> id ]
        ELSE [ records |-> addRecord(recs, id, call, time), nextId |-> id + 1 ]

-----------------------------------------------------------------------------
(* The history store: connection, schema, queries and pruning *)

\* window lengths in milliseconds
hourMs == 3600000
dayMs == 86400000
weekMs == 604800000

\* getSearches(limit = 20)
DefaultLimit == 20

DB_VERSION == 1

STORE_NAME(v) == IF v \in {"gen", "inline"} THEN "searches" ELSE "searchHistory"

\* no database of that name on disk
NoDatabase == [ version |-> 0, stores |-> {} ]

\* request.onupgradeneeded: the history collection and its timestamp index
\* are created when the database does not have them; db is [schema, records]
onupgradeneeded(v, db) ==
    IF STORE_NAME(v) \in db.schema.stores
    THEN db
    ELSE [ schema |-> [ db.schema EXCEPT !.stores = @ \cup { STORE_NAME(v) } ],
           records |-> {} ]

\* indexedDB.open(DB_NAME, version) on a working engine: the upgrade handler
\* runs when the database on disk is behind the requested version
indexedDB_open(v, version, db) ==
    IF db.schema.version < version
    THEN LET up == onupgradeneeded(v, db)
         IN  [ up EXCEPT !.schema.version = version ]
    ELSE db

\* the connection state of the store instance, as one value
Conn == [ dbOpen |-> dbOpen, handle |-> handle, requests |-> requests,
          schema |-> schema, records |-> records, ok |-> dbOpen ]

\* open() of the lazy store: resolves with this.db when it is set and open,
\* otherwise issues a request; ok says whether the promise resolved
open(v, fails, c) ==
    IF c.dbOpen
    THEN [ c EXCEPT !.ok = TRUE ]
    ELSE IF fails
         THEN [ c EXCEPT !.requests = @ + 1, !.ok = FALSE ]
         ELSE LET db == indexedDB_open(v, DB_VERSION, [ schema |-> c.schema, records |-> c.records ])
              IN  [ dbOpen |-> TRUE, handle |-> c.requests + 1, requests |-> c.requests + 1,
                    schema |-> db.schema, records |-> db.records, ok |-> TRUE ]

\* init() of the explicit store: always issues a request; onsuccess stores
\* the request's result in this.db, onerror rejects and leaves this.db alone
init(v, fails, c) ==
    IF fails
    THEN [ c EXCEPT !.requests = @ + 1, !.ok = FALSE ]
    ELSE LET db == indexedDB_open(v, DB_VERSION, [ schema |-> c.schema, records |-> c.records ])
         IN  [ dbOpen |-> TRUE, handle |-> c.requests + 1, requests |-> c.requests + 1,
               schema |-> db.schema, records |-> db.records, ok |-> TRUE ]

\* the first n elements of a sequence
Take(s, n) == SubSeq(s, 1, IF Len(s) < n THEN Len(s) ELSE n)

\* s with x put after its first k elements
InsertAt(s, k, x) == SubSeq(s, 1, k) \o << x >> \o SubSeq(s, k + 1, Len(s))

\* index("timestamp").openCursor(null, "prev"): by timestamp descending,
\* records of one timestamp by key descending
RECURSIVE cursorPrev(_)
cursorPrev(recs) ==
    IF recs = {} THEN << >>
    ELSE LET r == CHOOSE x \in recs : TRUE
             rest == cursorPrev(recs \ { r })
             earlier == { i \in 1..Len(rest) :
                            \/ rest[i].timestamp > r.timestamp
                            \/ rest[i].timestamp = r.timestamp /\ rest[i].id > r.id }
         IN  InsertAt(rest, Cardinality(earlier), r)

\* a getSearches whose cursor runs in direction "next"
getSearches_oldestFirst(recs, limit) ==
    LET s == cursorPrev(recs)
    IN  Take([ i \in 1..Len(s) |-> s[Len(s) + 1 - i] ], limit)

\* getSearches(limit) on an open store: the cursor is followed while fewer
\* than limit records have been collected
getSearches(recs, limit) == Take(cursorPrev(recs), limit)

\* store.getAll(): by key ascending
RECURSIVE getAll(_)
getAll(recs) ==
    IF recs = {} THEN << >>
    ELSE LET r == CHOOSE x \in recs : TRUE
             rest == getAll(recs \ { r })
         IN  InsertAt(rest, Cardinality({ i \in 1..Len(rest) : rest[i].id < r.id }), r)

\* items.sort((a, b) => b.timestamp - a.timestamp): newest first, items of
\* one timestamp kept in the order they had (the sort is stable)
RECURSIVE sortNewestFirst(_)
sortNewestFirst(items) ==
    IF items = << >> THEN << >>
    ELSE LET last == items[Len(items)]
             rest == sortNewestFirst(SubSeq(items, 1, Len(items) - 1))
         IN  InsertAt(rest, Cardinality({ i \in 1..Len(rest) :
                                            rest[i].timestamp >= last.timestamp }), last)

\* a filter callback that also shows a record exactly one window old
shownByFilter_inclusive(filter, age) ==
    CASE filter = "1h" -> age <= hourMs
      [] filter = "24h" -> age <= dayMs
      [] filter = "week" -> age <= weekMs
      [] OTHER -> TRUE

\* the filter callback of getSearchHistory
shownByFilter(filter, age) ==
    CASE filter = "1h" -> age < hourMs
      [] filter = "24h" -> age < dayMs
      [] filter = "week" -> age < weekMs
      [] OTHER -> TRUE

\* getSearchHistory(filter) on an open store at time `time`
getSearchHistory(recs, filter, time) ==
    SelectSeq(sortNewestFirst(getAll(recs)),
              LAMBDA item : shownByFilter(filter, time - item.timestamp))

\* renderSearchHistory of the lazy store: the time filter and the bang
\* filter applied to what getSearches() returned
filteredSearches(searches, currentFilter, currentBangFilter, time) ==
    LET byTime == CASE currentFilter = "hour" ->
                           SelectSeq(searches, LAMBDA s : time - s.timestamp <= hourMs)
                    [] currentFilter = "day" ->
                           SelectSeq(searches, LAMBDA s : time - s.timestamp <= dayMs)
                    [] currentFilter = "week" ->
                           SelectSeq(searches, LAMBDA s : time - s.timestamp <= weekMs)
                    [] OTHER -> searches
    IN  IF currentBangFilter # << "a", "l", "l" >>
        THEN SelectSeq(byTime, LAMBDA s : s.bangUsed = currentBangFilter)
        ELSE byTime

\* a filter callback that keeps only what is older than the window
keptByTimeframe_strict(timeframe, age) ==
    CASE timeframe = "1h" -> age > hourMs
      [] timeframe = "24h" -> age > dayMs
      [] timeframe = "week" -> age > weekMs
      [] timeframe = "all" -> FALSE
      [] OTHER -> TRUE

\* the filter callback of clearHistoryByTimeframe: TRUE for what is kept
keptByTimeframe(timeframe, age) ==
    CASE timeframe = "1h" -> age >= hourMs
      [] timeframe = "24h" -> age >= dayMs
      [] timeframe = "week" -> age >= weekMs
      [] timeframe = "all" -> FALSE
      [] OTHER -> TRUE

\* the store after clearHistoryByTimeframe's transaction: getAll, filter,
\* clear, and store.add of every kept item under its own key
clearHistoryByTimeframe(recs, timeframe, time) ==
    LET items == SelectSeq(getAll(recs),
                           LAMBDA item : keptByTimeframe(timeframe, time - item.timestamp))
    IN  IF timeframe = "all" THEN {} ELSE { items[i] : i \in 1..Len(items) }

-----------------------------------------------------------------------------
(* The page: state after construction *)

NoParam == [ present |-> FALSE, text |-> << >> ]

\* the values the "q" parameter of a page load can have
QueryParams == { NoParam } \cup { [ present |-> TRUE, text |-> s ] : s \in StringsUpTo(MaxLen) }

\* the values the persisted "default-bang" slot can have
DefaultBangSlots == { NoParam } \cup { [ present |-> TRUE, text |-> s ] :
                                        s \in { << "w" >>, << "G" >>, << "z", "z" >> } }

\* the database an earlier visit of this revision has created
CreatedSchema(v) == [ version |-> DB_VERSION, stores |-> { STORE_NAME(v) } ]

\* the argument of a store operation; an operation sets the fields it has
NoArg == [ filter |-> "", bang |-> << >>, limit |-> 0, id |-> 0, query |-> << >> ]

\* no store operation has been invoked yet
NoOp == [ op |-> "none", arg |-> NoArg, time |-> 0, before |-> {}, wasOpen |-> FALSE,
          handle |-> 0, requests |-> 0, error |-> "" ]

\* a record left in the store by an earlier visit
SeedRecord(v) == [ id |-> 1, query |-> << "g" >>, timestamp |-> 0,
                   bangUsed |-> IF v \in {"gen", "inline"} THEN << "g" >> ELSE << >> ]

Init ==
    /\ variant \in Variants
    /\ lsDefaultBang \in DefaultBangSlots
    /\ customBangs = << >>
    /\ idbFails \in BOOLEAN
    /\ dbOpen = FALSE
    /\ records \in { {}, { SeedRecord(variant) } }
    /\ nextId = Cardinality(records) + 1
    /\ now = 1
    /\ pc = "start"
    /\ q = NoParam
    /\ searchUrl = Null
    /\ navigatedTo = Null
    /\ dashboard = FALSE
    /\ addCalls = << >>
    /\ pending = << >>
    /\ schema = CreatedSchema(variant)
    /\ requests = 0
    /\ handle = 0
    /\ result = << >>
    /\ lastOp = NoOp
    /\ calls = << >>
    /\ txs = << >>

-----------------------------------------------------------------------------
(* Actions *)

\* "gen": module load and doRedirect(), src/src/main.ts 1054-1119
LoadPage_gen ==
    /\ pc = "start" /\ variant = "gen"
    /\ \E param \in QueryParams :
           LET r == getBangredirectUrl_gen(lsDefaultBang, customBangs, param)
               go == r.url # Null /\ verifyClientSideRedirect(r.url)
           IN  /\ q' = param
               /\ searchUrl' = r.url
               /\ addCalls' = r.adds
               /\ pending' = r.adds
               /\ navigatedTo' = IF go THEN r.url ELSE Null
               /\ dashboard' = ~go
               /\ pc' = "done"
               /\ UNCHANGED storeVars
               /\ UNCHANGED << variant, lsDefaultBang, customBangs, idbFails, dbOpen, records, nextId, now >>

\* "inline": module load and doRedirect(), src/unnamed/part_002 860-903
LoadPage_inline ==
    /\ pc = "start" /\ variant = "inline"
    /\ \E param \in QueryParams :
           LET r == getBangredirectUrl_inline(lsDefaultBang, customBangs, param)
           IN  /\ q' = param
               /\ searchUrl' = r.url
               /\ addCalls' = r.adds
               /\ pending' = r.adds
               /\ navigatedTo' = r.url
               /\ dashboard' = (r.url = Null)
               /\ pc' = "done"
               /\ UNCHANGED storeVars
               /\ UNCHANGED << variant, lsDefaultBang, customBangs, idbFails, dbOpen, records, nextId, now >>

\* a page load that navigates without awaiting the history write
LoadPage_init_notAwaiting ==
    /\ pc = "start" /\ variant = "init"
    /\ \E param \in QueryParams :
           LET r == getBangredirectUrl_init(lsDefaultBang, customBangs, param)
           IN  /\ dbOpen' = ~idbFails
               /\ q' = param
               /\ searchUrl' = r.url
               /\ addCalls' = r.adds
               /\ pending' = r.adds
               /\ navigatedTo' = r.url
               /\ dashboard' = (trimmedQuery(param) = << >>)
               /\ pc' = IF r.adds = << >> THEN "done" ELSE "writing"
               /\ UNCHANGED storeVars
               /\ UNCHANGED << variant, lsDefaultBang, customBangs, idbFails, records, nextId, now >>

\* "init": initializeApp() and doRedirect() up to the awaited addSearch,
\* src/src/main.ts 1365-1372, 1861-1900
LoadPage_init ==
    /\ pc = "start" /\ variant = "init"
    /\ \E param \in QueryParams :
           LET r == getBangredirectUrl_init(lsDefaultBang, customBangs, param)
           IN  /\ dbOpen' = ~idbFails
               /\ q' = param
               /\ searchUrl' = r.url
               /\ addCalls' = r.adds
               /\ pending' = r.adds
               /\ navigatedTo' = Null
               /\ dashboard' = (trimmedQuery(param) = << >>)
               /\ pc' = IF r.adds = << >> THEN "done" ELSE "writing"
               /\ UNCHANGED storeVars
               /\ UNCHANGED << variant, lsDefaultBang, customBangs, idbFails, records, nextId, now >>

\* "third": initializeApp() and doRedirect(), src/src/main.ts 2151-2161,
\* 2643-2685; addSearch on a store that is not open rejects at once
LoadPage_third ==
    /\ pc = "start" /\ variant = "third"
    /\ \E param \in QueryParams :
           LET r == doRedirect_third(lsDefaultBang, customBangs, param)
           IN  /\ dbOpen' = ~idbFails
               /\ q' = param
               /\ searchUrl' = r.url
               /\ addCalls' = r.adds
               /\ pending' = IF idbFails THEN << >> ELSE r.adds
               /\ navigatedTo' = r.url
               /\ dashboard' = r.dash
               /\ pc' = "done"
               /\ UNCHANGED storeVars
               /\ UNCHANGED << variant, lsDefaultBang, customBangs, idbFails, records, nextId, now >>

\* the transaction of a pending addSearch runs (always-insert store; the
\* call first awaits open(), and drops the record when open() rejects)
CompleteAddSearch_lazy ==
    LET w == addSearch_insert(records, nextId, Head(pending), now)
    IN  /\ variant \in {"gen", "inline"} /\ pending # << >>
        /\ pending' = Tail(pending)
        /\ dbOpen' = ~idbFails
        /\ records' = IF idbFails THEN records ELSE w.records
        /\ nextId' = IF idbFails THEN nextId ELSE w.nextId
        /\ UNCHANGED storeVars
        /\ UNCHANGED << variant, lsDefaultBang, customBangs, idbFails, now, pc, q,
                        searchUrl, navigatedTo, dashboard, addCalls >>

\* "init": the awaited addSearch settles; a store that is not open throws
\* "Database not initialized", which doRedirect catches and logs;
\* otherwise getBangredirectUrl returns and doRedirect navigates
CompleteAddSearch_init ==
    LET w == addSearch_dedupe(records, nextId, Head(pending), now)
    IN  /\ variant = "init" /\ pc = "writing" /\ pending # << >>
        /\ pending' = Tail(pending)
        /\ records' = IF dbOpen THEN w.records ELSE records
        /\ nextId' = IF dbOpen THEN w.nextId ELSE nextId
        /\ navigatedTo' = IF dbOpen THEN searchUrl ELSE Null
        /\ pc' = "done"
        /\ UNCHANGED storeVars
        /\ UNCHANGED << variant, lsDefaultBang, customBangs, idbFails, dbOpen, now, q,
                        searchUrl, dashboard, addCalls >>

\* "third": the transaction of the un-awaited addSearch runs
CompleteAddSearch_third ==
    LET w == addSearch_dedupe(records, nextId, Head(pending), now)
    IN  /\ variant = "third" /\ pending # << >>
        /\ pending' = Tail(pending)
        /\ records' = w.records
        /\ nextId' = w.nextId
        /\ UNCHANGED storeVars
        /\ UNCHANGED << variant, lsDefaultBang, customBangs, idbFails, dbOpen, now, pc, q,
                        searchUrl, navigatedTo, dashboard, addCalls >>

\* time passes between an addSearch call and its transaction
Tick ==
    /\ pending # << >> /\ now < MaxTime
    /\ now' = now + 1
    /\ UNCHANGED storeVars
    /\ UNCHANGED << variant, lsDefaultBang, customBangs, idbFails, dbOpen, records, nextId,
                    pc, q, searchUrl, navigatedTo, dashboard, addCalls, pending >>

\* the add-bang form of the dashboard is submitted
SaveBang(rawTrigger, rawUrl) ==
    /\ pc = "done" /\ dashboard
    /\ Len(customBangs) < MaxBangs
    /\ customBangs' = saveBang(variant, customBangs, rawTrigger, rawUrl)
    /\ UNCHANGED storeVars
    /\ UNCHANGED << variant, lsDefaultBang, idbFails, dbOpen, records, nextId, now, pc, q,
                    searchUrl, navigatedTo, dashboard, addCalls, pending >>

\* the delete button of a listed custom bang is clicked
DeleteBang(i) ==
    /\ pc = "done" /\ dashboard
    /\ i \in 1..Len(customBangs)
    /\ customBangs' = deleteCustomBang(variant, customBangs, customBangs[i].t)
    /\ UNCHANGED storeVars
    /\ UNCHANGED << variant, lsDefaultBang, idbFails, dbOpen, records, nextId, now, pc, q,
                    searchUrl, navigatedTo, dashboard, addCalls, pending >>

\* the page is loaded again from the dashboard (a search is submitted)
OpenPage ==
    /\ pc = "done" /\ dashboard /\ pending = << >>
    /\ pc' = "start"
    /\ q' = NoParam
    /\ searchUrl' = Null
    /\ navigatedTo' = Null
    /\ dashboard' = FALSE
    /\ addCalls' = << >>
    /\ dbOpen' = FALSE
    /\ UNCHANGED storeVars
    /\ UNCHANGED << variant, lsDefaultBang, customBangs, idbFails, records, nextId, now, pending >>

Next ==
    \/ LoadPage_gen
    \/ LoadPage_inline
    \/ LoadPage_init
    \/ LoadPage_third
    \/ CompleteAddSearch_lazy
    \/ CompleteAddSearch_init
    \/ CompleteAddSearch_third
    \/ Tick
    \/ \E t \in TriggerInputs, u \in UrlInputs : SaveBang(t, u)
    \/ \E i \in 1..2 : DeleteBang(i)
    \/ OpenPage

Spec == Init /\ [][Next]_vars

-----------------------------------------------------------------------------
(* The history store on its own: the operations of SearchHistoryDB as the   *)
(* dashboard and the redirect invoke them, each one step at time `now`      *)

MaxRequests == 2
MaxAdds == 2

\* the time of the first store operation of a behaviour
StoreStart == weekMs

\* SearchHistoryDB of "inline" is line for line that of "gen", and that of
\* "third" that of "init": the store specification runs one of each
LazyStore == { "gen" }
ExplicitStore == { "init" }

\* the bang recorded with a stored search: only the lazy store records one
usedBang(v, t) == IF v \in LazyStore THEN t ELSE << >>

\* records left by earlier visits, one just inside each window at StoreStart
SeedRecords(v) ==
    { [ id |-> 1, query |-> << "w" >>, timestamp |-> StoreStart - (weekMs - 1),
        bangUsed |-> usedBang(v, << "w" >>) ],
      [ id |-> 2, query |-> << "c" >>, timestamp |-> StoreStart - (dayMs - 1),
        bangUsed |-> usedBang(v, << "g" >>) ],
      [ id |-> 3, query |-> << "g" >>, timestamp |-> StoreStart - (hourMs - 1),
        bangUsed |-> usedBang(v, << "g" >>) ] }

\* one more record than getSearches() returns by default, all of the last
\* hour, every query text different
FullPage(v) ==
    { [ id |-> i, query |-> [ j \in 1..i |-> "g" ],
        timestamp |-> StoreStart - (DefaultLimit + 1) + i,
        bangUsed |-> usedBang(v, << "g" >>) ] : i \in 1..(DefaultLimit + 1) }

SeedStores(v) == (SUBSET SeedRecords(v)) \cup { FullPage(v) }

StoreInit ==
    /\ variant \in LazyStore \cup ExplicitStore
    /\ idbFails \in BOOLEAN
    /\ records \in SeedStores(variant)
    /\ schema \in IF records = {} THEN { NoDatabase, CreatedSchema(variant) }
                  ELSE { CreatedSchema(variant) }
    /\ nextId = IF records = FullPage(variant) THEN DefaultLimit + 2 ELSE 4
    /\ now = StoreStart
    /\ dbOpen = FALSE
    /\ requests = 0
    /\ handle = 0
    /\ result = << >>
    /\ lastOp = NoOp
    /\ calls = << >>
    /\ txs = << >>
    /\ lsDefaultBang = NoParam
    /\ customBangs = << >>
    /\ pc = "done"
    /\ q = NoParam
    /\ searchUrl = Null
    /\ navigatedTo = Null
    /\ dashboard = TRUE
    /\ addCalls = << >>
    /\ pending = << >>

\* a store operation has run: what it was, what it saw, what it left
Did(op, arg, c, recs, nid, res, err) ==
    /\ lastOp' = [ op |-> op, arg |-> arg, time |-> now, before |-> records,
                   wasOpen |-> dbOpen, handle |-> handle, requests |-> requests,
                   error |-> err ]
    /\ dbOpen' = c.dbOpen
    /\ handle' = c.handle
    /\ requests' = c.requests
    /\ schema' = c.schema
    /\ records' = recs
    /\ nextId' = nid
    /\ result' = res
    /\ UNCHANGED << variant, idbFails, now, lsDefaultBang, customBangs, pc, q,
                    searchUrl, navigatedTo, dashboard, pending, calls, txs >>

OpenFailed == "Could not open database"
NotInitialized == "Database not initialized"

\* lazy store: open(), as the constructor and every operation call it
Open ==
    /\ variant \in LazyStore
    /\ dbOpen \/ requests < MaxRequests
    /\ LET c == open(variant, idbFails, Conn)
       IN  Did("open", NoArg, c, c.records, nextId, << >>,
               IF c.ok THEN "" ELSE OpenFailed)
    /\ UNCHANGED addCalls

\* explicit store: init()
InitStore ==
    /\ variant \in ExplicitStore
    /\ requests < MaxRequests
    /\ LET c == init(variant, idbFails, Conn)
       IN  Did("init", NoArg, c, c.records, nextId, << >>,
               IF c.ok THEN "" ELSE OpenFailed)
    /\ UNCHANGED addCalls

\* lazy store: addSearch(query, bangUsed); a failed open() is caught and logged
AddSearch_lazy(query, bangUsed) ==
    /\ variant \in LazyStore
    /\ dbOpen \/ requests < MaxRequests
    /\ Len(addCalls) < MaxAdds
    /\ LET c == open(variant, idbFails, Conn)
           w == addSearch_insert(c.records, nextId, Call(query, bangUsed), now)
           arg == [ NoArg EXCEPT !.query = query, !.bang = bangUsed ]
       IN  IF c.ok
           THEN Did("addSearch", arg, c, w.records, w.nextId, << >>, "")
           ELSE Did("addSearch", arg, c, c.records, nextId, << >>, OpenFailed)
    /\ addCalls' = Append(addCalls, Call(query, bangUsed))

\* an addSearch that opens the store when it is closed instead of rejecting
AddSearch_explicit_opening(query) ==
    /\ variant \in ExplicitStore
    /\ Len(addCalls) < MaxAdds
    /\ LET w == addSearch_dedupe(records, nextId, Call(query, << >>), now)
           arg == [ NoArg EXCEPT !.query = query ]
       IN  Did("addSearch", arg, [ Conn EXCEPT !.dbOpen = TRUE ], w.records, w.nextId, << >>, "")
    /\ addCalls' = Append(addCalls, Call(query, << >>))

\* explicit store: addSearch(query)
AddSearch_explicit(query) ==
    /\ variant \in ExplicitStore
    /\ Len(addCalls) < MaxAdds
    /\ LET w == addSearch_dedupe(records, nextId, Call(query, << >>), now)
           arg == [ NoArg EXCEPT !.query = query ]
       IN  IF dbOpen
           THEN Did("addSearch", arg, Conn, w.records, w.nextId, << >>, "")
           ELSE Did("addSearch", arg, Conn, records, nextId, << >>, NotInitialized)
    /\ addCalls' = Append(addCalls, Call(query, << >>))

\* lazy store: getSearches(limit); a failed open() resolves with []
GetSearches(limit) ==
    /\ variant \in LazyStore
    /\ dbOpen \/ requests < MaxRequests
    /\ LET c == open(variant, idbFails, Conn)
           arg == [ NoArg EXCEPT !.limit = limit ]
       IN  IF c.ok
           THEN Did("getSearches", arg, c, c.records, nextId, getSearches(c.records, limit), "")
           ELSE Did("getSearches", arg, c, c.records, nextId, << >>, OpenFailed)
    /\ UNCHANGED addCalls

\* lazy store: renderSearchHistory() with the persisted history-filter and
\* bang-filter; it lists the filtered part of what getSearches() returned
RenderSearchHistory_lazy(currentFilter, currentBangFilter) ==
    /\ variant \in LazyStore
    /\ dbOpen \/ requests < MaxRequests
    /\ LET c == open(variant, idbFails, Conn)
           arg == [ NoArg EXCEPT !.filter = currentFilter, !.bang = currentBangFilter,
                                 !.limit = DefaultLimit ]
           searches == IF c.ok THEN getSearches(c.records, DefaultLimit) ELSE << >>
       IN  Did("renderSearchHistory", arg, c, c.records, nextId,
               filteredSearches(searches, currentFilter, currentBangFilter, now),
               IF c.ok THEN "" ELSE OpenFailed)
    /\ UNCHANGED addCalls

\* explicit store: getSearchHistory(filter), as renderSearchHistory(filter) calls it
GetSearchHistory(filter) ==
    /\ variant \in ExplicitStore
    /\ LET arg == [ NoArg EXCEPT !.filter = filter ]
       IN  IF dbOpen
           THEN Did("getSearchHistory", arg, Conn, records, nextId,
                    getSearchHistory(records, filter, now), "")
           ELSE Did("getSearchHistory", arg, Conn, records, nextId, << >>, NotInitialized)
    /\ UNCHANGED addCalls

\* lazy store: clearHistory()
ClearHistory_lazy ==
    /\ variant \in LazyStore
    /\ dbOpen \/ requests < MaxRequests
    /\ LET c == open(variant, idbFails, Conn)
       IN  IF c.ok
           THEN Did("clearHistory", NoArg, c, {}, nextId, << >>, "")
           ELSE Did("clearHistory", NoArg, c, c.records, nextId, << >>, OpenFailed)
    /\ UNCHANGED addCalls

\* explicit store: clearHistory()
ClearHistory_explicit ==
    /\ variant \in ExplicitStore
    /\ IF dbOpen
       THEN Did("clearHistory", NoArg, Conn, {}, nextId, << >>, "")
       ELSE Did("clearHistory", NoArg, Conn, records, nextId, << >>, NotInitialized)
    /\ UNCHANGED addCalls

\* lazy store: deleteSearch(id)
DeleteSearch(id) ==
    /\ variant \in LazyStore
    /\ dbOpen \/ requests < MaxRequests
    /\ LET c == open(variant, idbFails, Conn)
           arg == [ NoArg EXCEPT !.id = id ]
       IN  IF c.ok
           THEN Did("deleteSearch", arg, c, { r \in c.records : r.id # id }, nextId, << >>, "")
           ELSE Did("deleteSearch", arg, c, c.records, nextId, << >>, OpenFailed)
    /\ UNCHANGED addCalls

\* explicit store: clearHistoryByTimeframe(timeframe)
ClearHistoryByTimeframe(timeframe) ==
    /\ variant \in ExplicitStore
    /\ LET arg == [ NoArg EXCEPT !.filter = timeframe ]
       IN  IF dbOpen
           THEN Did("clearHistoryByTimeframe", arg, Conn,
                    clearHistoryByTimeframe(records, timeframe, now), nextId, << >>, "")
           ELSE Did("clearHistoryByTimeframe", arg, Conn, records, nextId, << >>,
                    NotInitialized)
    /\ UNCHANGED addCalls

\* lazy store: the clear-history button of the list that the last
\* renderSearchHistory() has drawn is clicked; the handler holds that
\* render's filters and filteredSearches, and renders again when it is done
ClearHistoryClick ==
    /\ variant \in LazyStore
    /\ lastOp.op = "renderSearchHistory" /\ lastOp.error = "" /\ lastOp.before # {}
    /\ LET showsAll == lastOp.arg.filter = "all" /\ lastOp.arg.bang = << "a", "l", "l" >>
           idsToDelete == { result[i].id : i \in 1..Len(result) }
           left == IF showsAll THEN {} ELSE { r \in records : r.id \notin idsToDelete }
       IN  /\ records' = left
           /\ result' = filteredSearches(getSearches(left, DefaultLimit), lastOp.arg.filter,
                                         lastOp.arg.bang, now)
           /\ lastOp' = [ lastOp EXCEPT !.op = "clear-history", !.before = records ]
    /\ UNCHANGED << variant, idbFails, dbOpen, nextId, now, schema, requests, handle, calls, txs,
                    pageVars >>

\* time passes between two store operations
Advance ==
    /\ now < StoreStart + MaxTime
    /\ now' = now + 1
    /\ UNCHANGED << variant, idbFails, dbOpen, records, nextId, storeVars, pageVars >>

TimeFilters == { "all", "1h", "24h", "week" }
HistoryFilters == { "all", "hour", "day", "week" }
BangFilters == { << "a", "l", "l" >>, << "g" >> }
Limits == { 0, 2, DefaultLimit }
StoredQueries == { << "g" >>, << "c" >> }

StoreNext ==
    \/ Open
    \/ InitStore
    \/ AddSearch_lazy(<< "c" >>, << "g" >>)
    \/ \E query \in StoredQueries : AddSearch_explicit(query)
    \/ \E limit \in Limits : GetSearches(limit)
    \/ \E f \in HistoryFilters, b \in BangFilters : RenderSearchHistory_lazy(f, b)
    \/ \E f \in TimeFilters : GetSearchHistory(f)
    \/ ClearHistory_lazy
    \/ ClearHistory_explicit
    \/ \E id \in 1..2 : DeleteSearch(id)
    \/ \E f \in TimeFilters : ClearHistoryByTimeframe(f)
    \/ ClearHistoryClick
    \/ Advance

SpecStore == StoreInit /\ [][StoreNext]_vars

-----------------------------------------------------------------------------
(* The history store, asynchronously: an operation is split where the code  *)
(* awaits or waits for a request callback.  indexedDB.open requests succeed *)
(* in the order they were issued; transactions on the history collection    *)
(* run one at a time in the order they were created, and a transaction      *)
(* stays the running one while its callbacks place further requests.        *)

\* operations invoked in a behaviour, besides the one made at module load
MaxCalls == 3

\* an operation that has been invoked: stage is "opening" (its open request
\* is in flight), "queued" (its transaction is created), "done" or "failed"
AsyncCall(op, arg) ==
    [ op |-> op, arg |-> arg, stage |-> "opening", req |-> 0, handle |-> 0,
      time |-> 0, step |-> "created", seen |-> {}, kept |-> {} ]

\* records left by earlier visits: one exactly an hour old, one of the last hour
AsyncSeed(v) ==
    { [ id |-> 1, query |-> << "w" >>, timestamp |-> StoreStart - hourMs,
        bangUsed |-> usedBang(v, << "w" >>) ],
      [ id |-> 2, query |-> << "g" >>, timestamp |-> StoreStart - 1,
        bangUsed |-> usedBang(v, << "g" >>) ] }

\* module load: `new SearchHistoryDB()` has called open() (lazy store), or
\* initializeApp() has called db.init() (explicit store); the request is in flight
AsyncInit ==
    /\ variant \in LazyStore \cup ExplicitStore
    /\ idbFails \in BOOLEAN
    /\ records \in { {}, AsyncSeed(variant) }
    /\ schema = CreatedSchema(variant)
    /\ nextId = 3
    /\ now = StoreStart
    /\ dbOpen = FALSE
    /\ requests = 1
    /\ handle = 0
    /\ result = << >>
    /\ lastOp = NoOp
    /\ calls = << [ AsyncCall(IF variant \in LazyStore THEN "constructor" ELSE "init", NoArg)
                      EXCEPT !.req = 1 ] >>
    /\ txs = << >>
    /\ lsDefaultBang = NoParam
    /\ customBangs = << >>
    /\ pc = "done"
    /\ q = NoParam
    /\ searchUrl = Null
    /\ navigatedTo = Null
    /\ dashboard = TRUE
    /\ addCalls = << >>
    /\ pending = << >>

\* an operation has settled: what it was and what its transaction saw
Settled(c, before, err) ==
    [ op |-> c.op, arg |-> c.arg, time |-> c.time, before |-> before, wasOpen |-> TRUE,
      handle |-> c.handle, requests |-> requests, error |-> err ]

\* a callback whose further request starts a transaction of its own, queued
\* behind those already created
sameTransaction_newTransaction(queue) == Tail(queue) \o << Head(queue) >>

\* the transaction queue after a callback of the running transaction has
\* placed a further request on the same store: the transaction stays first
sameTransaction(queue) == queue

\* lazy store: an operation is invoked and calls open(); with this.db set
\* the promise resolves with it and the transaction is created, otherwise a
\* request is issued
Invoke_lazy(op, arg) ==
    /\ variant \in LazyStore
    /\ Len(calls) < MaxCalls + 1
    /\ IF dbOpen
       THEN /\ calls' = Append(calls, [ AsyncCall(op, arg) EXCEPT !.stage = "queued",
                                           !.handle = handle, !.time = now ])
            /\ txs' = Append(txs, Len(calls) + 1)
            /\ UNCHANGED requests
       ELSE /\ calls' = Append(calls, [ AsyncCall(op, arg) EXCEPT !.req = requests + 1 ])
            /\ requests' = requests + 1
            /\ UNCHANGED txs
    /\ UNCHANGED << variant, idbFails, dbOpen, records, nextId, now, schema, handle, result,
                    lastOp, pageVars >>

\* request.onsuccess of the oldest open request in flight: this.db is set
\* to its connection and the caller goes on with it
OpenSuccess ==
    LET opening == { i \in 1..Len(calls) : calls[i].stage = "opening" }
        i == CHOOSE k \in opening : \A j \in opening : k <= j
        db == indexedDB_open(variant, DB_VERSION, [ schema |-> schema, records |-> records ])
        atLoad == calls[i].op \in { "constructor", "init" }
    IN  /\ ~idbFails /\ opening # {}
        /\ dbOpen' = TRUE
        /\ handle' = calls[i].req
        /\ schema' = db.schema
        /\ records' = db.records
        /\ calls' = [ calls EXCEPT ![i].handle = calls[i].req, ![i].time = now,
                                   ![i].stage = IF atLoad THEN "done" ELSE "queued" ]
        /\ txs' = IF atLoad THEN txs ELSE Append(txs, i)
        /\ UNCHANGED << variant, idbFails, nextId, now, requests, result, lastOp, pageVars >>

\* request.onerror of the oldest open request in flight: the caller's
\* open() rejects, which the operation catches and logs
OpenError ==
    LET opening == { i \in 1..Len(calls) : calls[i].stage = "opening" }
        i == CHOOSE k \in opening : \A j \in opening : k <= j
    IN  /\ idbFails /\ opening # {}
        /\ calls' = [ calls EXCEPT ![i].stage = "failed" ]
        /\ UNCHANGED << variant, idbFails, dbOpen, records, nextId, now, schema, requests,
                        handle, result, lastOp, txs, pageVars >>

\* lazy store: the first queued transaction runs its one request
RunTransaction_lazy ==
    /\ variant \in LazyStore /\ txs # << >>
    /\ LET i == Head(txs)
           c == calls[i]
           w == addSearch_insert(records, nextId, Call(c.arg.query, c.arg.bang), c.time)
       IN  /\ records' = CASE c.op = "addSearch" -> w.records
                           [] c.op = "clearHistory" -> {}
                           [] c.op = "deleteSearch" -> { r \in records : r.id # c.arg.id }
                           [] OTHER -> records
           /\ nextId' = IF c.op = "addSearch" THEN w.nextId ELSE nextId
           /\ result' = IF c.op = "getSearches" THEN getSearches(records, c.arg.limit) ELSE << >>
           /\ lastOp' = Settled(c, records, "")
           /\ calls' = [ calls EXCEPT ![i].stage = "done" ]
           /\ txs' = Tail(txs)
    /\ UNCHANGED << variant, idbFails, dbOpen, now, schema, requests, handle, pageVars >>

\* explicit store: an operation is invoked; with this.db null it throws,
\* otherwise its transaction is created
Invoke_explicit(op, arg) ==
    /\ variant \in ExplicitStore
    /\ Len(calls) < MaxCalls + 1
    /\ IF dbOpen
       THEN /\ calls' = Append(calls, [ AsyncCall(op, arg) EXCEPT !.stage = "queued",
                                           !.handle = handle ])
            /\ txs' = Append(txs, Len(calls) + 1)
       ELSE /\ calls' = Append(calls, [ AsyncCall(op, arg) EXCEPT !.stage = "failed" ])
            /\ UNCHANGED txs
    /\ UNCHANGED << variant, idbFails, dbOpen, records, nextId, now, schema, requests, handle,
                    result, lastOp, pageVars >>

\* the first queued transaction, when it belongs to operation op of the
\* explicit store at step `step`
Running(op, step) ==
    /\ variant \in ExplicitStore /\ txs # << >>
    /\ calls[Head(txs)].op = op
    /\ calls[Head(txs)].step = step

\* explicit store: the transaction of addSearch runs (getAll, then put or add)
RunAddSearch_explicit ==
    /\ Running("addSearch", "created")
    /\ LET i == Head(txs)
           c == [ calls[i] EXCEPT !.time = now ]
           w == addSearch_dedupe(records, nextId, Call(c.arg.query, << >>), now)
       IN  /\ records' = w.records
           /\ nextId' = w.nextId
           /\ result' = << >>
           /\ lastOp' = Settled(c, records, "")
           /\ calls' = [ calls EXCEPT ![i] = [ c EXCEPT !.stage = "done" ] ]
           /\ txs' = Tail(txs)
    /\ UNCHANGED << variant, idbFails, dbOpen, now, schema, requests, handle, pageVars >>

\* explicit store: the transaction of getSearchHistory runs
RunGetSearchHistory ==
    /\ Running("getSearchHistory", "created")
    /\ LET i == Head(txs)
           c == [ calls[i] EXCEPT !.time = now ]
       IN  /\ result' = getSearchHistory(records, c.arg.filter, now)
           /\ lastOp' = Settled(c, records, "")
           /\ calls' = [ calls EXCEPT ![i] = [ c EXCEPT !.stage = "done" ] ]
           /\ txs' = Tail(txs)
    /\ UNCHANGED << variant, idbFails, dbOpen, records, nextId, now, schema, requests, handle,
                    pageVars >>

\* explicit store: the transaction of clearHistory runs
RunClearHistory_explicit ==
    /\ Running("clearHistory", "created")
    /\ LET i == Head(txs)
           c == [ calls[i] EXCEPT !.time = now ]
       IN  /\ records' = {}
           /\ result' = << >>
           /\ lastOp' = Settled(c, records, "")
           /\ calls' = [ calls EXCEPT ![i] = [ c EXCEPT !.stage = "done" ] ]
           /\ txs' = Tail(txs)
    /\ UNCHANGED << variant, idbFails, dbOpen, nextId, now, schema, requests, handle, pageVars >>

\* clearHistoryByTimeframe, getAllRequest.onsuccess: the items to keep are
\* computed and store.clear() is placed
PruneRead ==
    /\ Running("clearHistoryByTimeframe", "created")
    /\ LET i == Head(txs)
       IN  /\ calls' = [ calls EXCEPT ![i].time = now, ![i].seen = records, ![i].step = "read",
                             ![i].kept = clearHistoryByTimeframe(records, calls[i].arg.filter, now) ]
           /\ txs' = sameTransaction(txs)
    /\ UNCHANGED << variant, idbFails, dbOpen, records, nextId, now, schema, requests, handle,
                    result, lastOp, pageVars >>

\* clearHistoryByTimeframe, clearRequest.onsuccess: the store is empty;
\* 'all' resolves, otherwise store.add is placed for every kept item
PruneClear ==
    /\ Running("clearHistoryByTimeframe", "read")
    /\ LET i == Head(txs)
           c == calls[i]
       IN  /\ records' = {}
           /\ IF c.arg.filter = "all"
              THEN /\ calls' = [ calls EXCEPT ![i].stage = "done", ![i].step = "cleared" ]
                   /\ txs' = Tail(txs)
                   /\ lastOp' = Settled(c, c.seen, "")
                   /\ result' = << >>
              ELSE /\ calls' = [ calls EXCEPT ![i].step = "cleared" ]
                   /\ txs' = sameTransaction(txs)
                   /\ UNCHANGED << lastOp, result >>
    /\ UNCHANGED << variant, idbFails, dbOpen, nextId, now, schema, requests, handle, pageVars >>

\* clearHistoryByTimeframe, the add requests have succeeded: every kept
\* item is in the store under its own key and the promise resolves
PruneReinsert ==
    /\ Running("clearHistoryByTimeframe", "cleared")
    /\ LET i == Head(txs)
           c == calls[i]
       IN  /\ records' = records \cup c.kept
           /\ calls' = [ calls EXCEPT ![i].stage = "done", ![i].step = "added" ]
           /\ txs' = Tail(txs)
           /\ lastOp' = Settled(c, c.seen, "")
           /\ result' = << >>
    /\ UNCHANGED << variant, idbFails, dbOpen, nextId, now, schema, requests, handle, pageVars >>

\* operations the dashboard and the redirect invoke on the lazy store
LazyCalls ==
    { << "addSearch", [ NoArg EXCEPT !.query = << "c" >>, !.bang = << "g" >> ] >>,
      << "getSearches", [ NoArg EXCEPT !.limit = DefaultLimit ] >>,
      << "clearHistory", NoArg >>,
      << "deleteSearch", [ NoArg EXCEPT !.id = 1 ] >> }

\* operations the dashboard and the redirect invoke on the explicit store
ExplicitCalls ==
    { << "addSearch", [ NoArg EXCEPT !.query = << "c" >> ] >>,
      << "addSearch", [ NoArg EXCEPT !.query = << "g" >> ] >>,
      << "getSearchHistory", [ NoArg EXCEPT !.filter = "all" ] >>,
      << "getSearchHistory", [ NoArg EXCEPT !.filter = "1h" ] >>,
      << "clearHistory", NoArg >>,
      << "clearHistoryByTimeframe", [ NoArg EXCEPT !.filter = "1h" ] >>,
      << "clearHistoryByTimeframe", [ NoArg EXCEPT !.filter = "all" ] >> }

AsyncNext ==
    \/ \E c \in LazyCalls : Invoke_lazy(c[1], c[2])
    \/ \E c \in ExplicitCalls : Invoke_explicit(c[1], c[2])
    \/ OpenSuccess
    \/ OpenError
    \/ RunTransaction_lazy
    \/ RunAddSearch_explicit
    \/ RunGetSearchHistory
    \/ RunClearHistory_explicit
    \/ PruneRead
    \/ PruneClear
    \/ PruneReinsert
    \/ Advance

SpecAsync == AsyncInit /\ [][AsyncNext]_vars

-----------------------------------------------------------------------------
(* What the specification says of a query, stated without the code's      *)
(* operators                                                              *)

RECURSIVE DropLeading(_)
DropLeading(s) == IF s # << >> /\ Head(s) = " " THEN DropLeading(Tail(s)) ELSE s

RECURSIVE DropTrailing(_)
DropTrailing(s) ==
    IF s # << >> /\ s[Len(s)] = " " THEN DropTrailing(SubSeq(s, 1, Len(s) - 1)) ELSE s

\* the query with outer white space removed
Stripped(s) == DropTrailing(DropLeading(s))

Lower(s) == [ i \in 1..Len(s) |-> CASE s[i] = "G" -> "g" [] s[i] = "C" -> "c" [] OTHER -> s[i] ]

\* position of the first "!" that is followed by a non-space character, or 0
RECURSIVE FirstBang(_, _)
FirstBang(s, i) ==
    IF i >= Len(s) THEN 0
    ELSE IF s[i] = "!" /\ s[i + 1] # " " THEN i
    ELSE FirstBang(s, i + 1)

\* last position of the run of non-space characters that holds position i
RECURSIVE WordEnd(_, _)
WordEnd(s, i) == IF i < Len(s) /\ s[i + 1] # " " THEN WordEnd(s, i + 1) ELSE i

HasBangToken(s) == FirstBang(s, 1) # 0

\* the lowercased trigger of the bang token
TypedTrigger(s) ==
    LET b == FirstBang(s, 1) IN Lower(SubSeq(s, b + 1, WordEnd(s, b)))

\* the search term: the query without its bang token, stripped
TypedTerm(s) ==
    LET b == FirstBang(s, 1)
    IN  Stripped(SubSeq(s, 1, b - 1) \o SubSeq(s, WordEnd(s, b) + 1, Len(s)))

\* percent-encoding in which "/" stays a literal "/"
RECURSIVE SlashSafe(_)
SlashSafe(s) ==
    IF s = << >> THEN << >>
    ELSE (CASE Head(s) = " " -> << "%", "2", "0" >>
            [] OTHER -> << Head(s) >>) \o SlashSafe(Tail(s))

\* the template with its placeholder replaced by the term
RECURSIVE Substituted(_, _)
Substituted(template, term) ==
    IF template = << >> THEN << >>
    ELSE IF Head(template) = Placeholder THEN term \o Tail(template)
    ELSE << Head(template) >> \o Substituted(Tail(template), term)

\* the query of the current page load, stripped
Query == IF q.present THEN Stripped(q.text) ELSE << >>

Loaded == pc # "start"

CustomIndex(x) == { i \in 1..Len(customBangs) : Lower(customBangs[i].t) = x }
BuiltInIndex(x) == { i \in 1..Len(bangs) : Lower(bangs[i].t) = x }
Least(S) == CHOOSE i \in S : \A j \in S : i <= j

\* the built-in bang whose trigger equals the persisted default-bang value,
\* or "g" when the slot is empty
ConfiguredDefault == IF lsDefaultBang.present THEN lsDefaultBang.text ELSE << "g" >>
DefaultIndex == { i \in 1..Len(bangs) : bangs[i].t = ConfiguredDefault }

\* "%2F" occurs in the URL
HasEscapedSlash(url) ==
    \E i \in 1..(Len(url) - 2) : url[i] = "%" /\ url[i + 1] = "2" /\ url[i + 2] = "F"

-----------------------------------------------------------------------------
(* Properties *)

\* C1: for every query whose bang token's lowercased trigger is the
\* lowercased trigger of a custom bang, the redirect URL is that custom
\* bang's template with the search term substituted, whether or not a
\* built-in bang has the same trigger.
C1_CustomBangWins ==
    ( /\ Loaded /\ variant \in {"gen", "init", "inline"}
      /\ HasBangToken(Query)
      /\ CustomIndex(TypedTrigger(Query)) # {} )
    => searchUrl = Substituted(customBangs[Least(CustomIndex(TypedTrigger(Query)))].u,
                               SlashSafe(TypedTerm(Query)))

\* C2: a non-empty query with no bang token resolves to the default bang's
\* template with the entire trimmed query as the term; the default bang is
\* the built-in whose trigger is the persisted default-bang value, "g" when
\* the slot is empty.
C2_NoBangUsesDefault ==
    ( /\ Loaded /\ variant \in {"gen", "inline"}
      /\ Query # << >> /\ ~HasBangToken(Query)
      /\ DefaultIndex # {} )
    => searchUrl = Substituted(bangs[Least(DefaultIndex)].u, SlashSafe(Query))

C2_Witness ==
    /\ pc = "done" /\ variant = "gen"
    /\ lsDefaultBang = [ present |-> TRUE, text |-> << "w" >> ]
    /\ q = [ present |-> TRUE, text |-> << " ", "g", "/", "c" >> ]
    /\ searchUrl = << "https://en.wikipedia.org/w/index.php?search=", "g", "/", "c" >>

\* C3: a query "!x term" whose trigger x is in neither table resolves to
\* the default bang's template with the cleaned term, not the whole
\* query, substituted.
C3_UnknownBangUsesCleanedTerm ==
    ( /\ Loaded /\ variant \in {"gen", "inline"}
      /\ FirstBang(Query, 1) = 1 /\ TypedTerm(Query) # << >>
      /\ CustomIndex(TypedTrigger(Query)) = {} /\ BuiltInIndex(TypedTrigger(Query)) = {}
      /\ DefaultIndex # {} )
    => searchUrl = Substituted(bangs[Least(DefaultIndex)].u, SlashSafe(TypedTerm(Query)))

\* C4: a query that is only a recognized bang token resolves to that
\* bang's own template with the placeholder replaced by the empty string.
C4_BareBangUsesOwnTemplate ==
    ( /\ Loaded /\ variant \in {"gen", "inline"}
      /\ FirstBang(Query, 1) = 1 /\ WordEnd(Query, 1) = Len(Query)
      /\ CustomIndex(TypedTrigger(Query)) \cup BuiltInIndex(TypedTrigger(Query)) # {} )
    => searchUrl = Substituted(
                     IF CustomIndex(TypedTrigger(Query)) # {}
                     THEN customBangs[Least(CustomIndex(TypedTrigger(Query)))].u
                     ELSE bangs[Least(BuiltInIndex(TypedTrigger(Query)))].u,
                     << >>)

\* C5: on every resolution path a "/" of the search term stays a literal
\* "/" in the final URL: the URL never holds "%2F".
C5_SlashStaysLiteral ==
    (Loaded /\ variant \in {"gen", "third"}) => ~HasEscapedSlash(searchUrl)

C7_NeverNull ==
    ( /\ Loaded /\ variant \in {"gen", "init"}
      /\ Query # << >> )
    => /\ searchUrl # Null
       /\ ( ( /\ BuiltInIndex(Lower(ConfiguredDefault)) = {}
              /\ ~HasBangToken(Query) )
            => searchUrl[1] = GoogleSearch )

\* C8: when opening the store fails, a page load with a non-empty query
\* still navigates to the resolved URL, and the store is left as it was.
C8_StoreFailureStillRedirects ==
    ( /\ pc = "done" /\ pending = << >> /\ variant \in {"gen", "init"}
      /\ idbFails /\ searchUrl # Null )
    => /\ navigatedTo = searchUrl
       /\ records \in { {}, { SeedRecord(variant) } }

\* C9: a page load that resolves to a redirect URL calls addSearch exactly
\* once; in the always-insert store the call's transaction adds exactly one
\* record, stamped with the current time, and changes no other record; for
\* a query "!x term" with x registered the record's query is the term.
C9_OneCall ==
    ( /\ Loaded /\ variant \in {"gen", "inline"} /\ searchUrl # Null )
    => /\ Len(addCalls) = 1
       /\ ( ( /\ FirstBang(Query, 1) = 1 /\ TypedTerm(Query) # << >>
              /\ CustomIndex(TypedTrigger(Query)) \cup BuiltInIndex(TypedTrigger(Query)) # {} )
            => addCalls[1].query = TypedTerm(Query) )

C9_OneInsert ==
    ( /\ variant \in {"gen", "inline"} /\ ~idbFails
      /\ pending # << >> /\ pending' = Tail(pending) )
    => \E r \in records' :
          /\ r \notin records
          /\ records' = records \cup { r }
          /\ \A o \in records : o.id # r.id
          /\ r.timestamp = now
          /\ r.query = Head(pending).query
          /\ r.bangUsed = Head(pending).bangUsed

C9_OneRecordPerRedirect == [] C9_OneCall /\ [][C9_OneInsert]_vars

C9_Witness ==
    /\ pc = "done" /\ variant = "gen" /\ ~idbFails /\ pending = << >>
    /\ q = [ present |-> TRUE, text |-> << "!", "c", " ", "g" >> ]
    /\ now = 2
    /\ records = { SeedRecord("gen"),
                   [ id |-> 2, query |-> << "g" >>, timestamp |-> 2, bangUsed |-> << "c" >> ] }

\* C10: the bangUsed stored with a history record is the trigger of the
\* bang whose template produced the URL: when the typed trigger is
\* unrecognized and the default bang supplies the URL, the recorded
\* bangUsed is the default bang's trigger.
C10_BangUsedIsResolvingBang ==
    ( /\ Loaded /\ variant \in {"gen", "inline"}
      /\ HasBangToken(Query)
      /\ CustomIndex(TypedTrigger(Query)) = {} /\ BuiltInIndex(TypedTrigger(Query)) = {}
      /\ DefaultIndex # {}
      /\ searchUrl # Null /\ searchUrl[1] = bangs[Least(DefaultIndex)].u[1] )
    => /\ addCalls # << >>
       /\ addCalls[1].bangUsed = bangs[Least(DefaultIndex)].t

-----------------------------------------------------------------------------
(* The custom-bang table on its own: the add-bang form and the delete       *)
(* buttons of the dashboard, from an empty table                            *)

\* what can be typed into the trigger field: a new trigger, the same in the
\* other case, another one, a built-in's trigger in the other case, nothing,
\* a space, a trigger after a space, a trigger with a character that is no
\* letter
TriggerForms == { << "c" >>, << "C" >>, << "z" >>, << "G" >>, << >>, << " " >>,
                  << " ", "c" >>, << "c", "!" >> }

\* what can be typed into the URL field: two templates, a URL without the
\* placeholder, nothing, a space
UrlForms == { << "https://c.example/search?q=", Placeholder >>,
              << "https://www.google.com/search?q=", Placeholder >>,
              << "https://c.example/search?q=" >>,
              << >>, << " " >> }

BangsInit ==
    /\ variant \in Variants
    /\ customBangs = << >>
    /\ lsDefaultBang = NoParam
    /\ idbFails = FALSE
    /\ dbOpen = FALSE
    /\ records = {}
    /\ nextId = 1
    /\ now = 1
    /\ pc = "done"
    /\ q = NoParam
    /\ searchUrl = Null
    /\ navigatedTo = Null
    /\ dashboard = TRUE
    /\ addCalls = << >>
    /\ pending = << >>
    /\ schema = CreatedSchema(variant)
    /\ requests = 0
    /\ handle = 0
    /\ result = << >>
    /\ lastOp = NoOp
    /\ calls = << >>
    /\ txs = << >>

BangsNext ==
    \/ \E t \in TriggerForms, u \in UrlForms : SaveBang(t, u)
    \/ \E i \in 1..MaxBangs : DeleteBang(i)

SpecBangs == BangsInit /\ [][BangsNext]_vars

-----------------------------------------------------------------------------
(* What the specification says of the history store, stated without the     *)
(* code's operators                                                         *)

\* the window a time filter names, in milliseconds (0: the filter names none)
WindowOf(f) ==
    CASE f \in { "1h", "hour" } -> 3600000
      [] f \in { "24h", "day" } -> 86400000
      [] f = "week" -> 604800000
      [] OTHER -> 0

\* the last operation was a history query that resolved, no bang filter set
HistoryQueried ==
    /\ lastOp.op \in { "getSearchHistory", "renderSearchHistory" }
    /\ lastOp.error = ""
    /\ lastOp.arg.bang \in { << >>, << "a", "l", "l" >> }

\* the records the last operation resolved with
Returned == { result[i] : i \in 1..Len(result) }

\* the age of a record when the last operation ran
AgeThen(r) == lastOp.time - r.timestamp

\* C11: a history query with filter '1h', '24h' or 'week' returns no record
\* whose timestamp is more than the window's length (3,600,000 ms,
\* 86,400,000 ms, 604,800,000 ms) before the time of the query, and returns
\* every stored record younger than the window.
C11_WindowedQuery ==
    (HistoryQueried /\ WindowOf(lastOp.arg.filter) > 0) =>
        /\ \A r \in Returned : AgeThen(r) <= WindowOf(lastOp.arg.filter)
        /\ \A r \in lastOp.before :
               AgeThen(r) < WindowOf(lastOp.arg.filter) => r \in Returned

\* C12: with filter 'all' a history query returns every record of the
\* store, whatever its age and however many records there are (none is left
\* out when the store holds more than 20).
C12_AllReturnsEveryRecord ==
    (HistoryQueried /\ lastOp.arg.filter = "all") => Returned = lastOp.before

\* the last operation was a query that resolved
Queried ==
    /\ lastOp.op \in { "getSearches", "getSearchHistory", "renderSearchHistory" }
    /\ lastOp.error = ""

\* the smaller of two numbers
Min(a, b) == IF a < b THEN a ELSE b

\* C13: a history query returns its records in non-increasing timestamp
\* order, and getSearches(limit) returns exactly min(limit, n) of the n
\* stored records, none of them older than a record it leaves out.
C13_NewestFirstAndCapped ==
    Queried =>
        /\ \A i, j \in 1..Len(result) :
               i < j => result[i].timestamp >= result[j].timestamp
        /\ lastOp.op = "getSearches" =>
               /\ Len(result) = Min(lastOp.arg.limit, Cardinality(lastOp.before))
               /\ Cardinality(Returned) = Len(result)
               /\ Returned \subseteq lastOp.before
               /\ \A r \in Returned : \A o \in lastOp.before \ Returned :
                      o.timestamp <= r.timestamp

\* getSearches(2) has run on a store of more than two records, two of them
\* of one timestamp
C13_Witness ==
    /\ lastOp.op = "getSearches" /\ lastOp.error = ""
    /\ lastOp.arg.limit = 2
    /\ Cardinality(lastOp.before) > 2
    /\ \E r, o \in lastOp.before : r # o /\ r.timestamp = o.timestamp
    /\ Len(result) = 2

\* the last operation was a clearHistoryByTimeframe that resolved
Pruned == lastOp.op = "clearHistoryByTimeframe" /\ lastOp.error = ""

\* C14: clearHistoryByTimeframe(w) for w '1h', '24h' or 'week' removes
\* exactly the records whose age is less than the window and leaves every
\* other record in the store with the same id, query and timestamp;
\* clearHistoryByTimeframe('all') leaves the store empty.
C14_PruneRemovesTheWindow ==
    Pruned =>
        /\ WindowOf(lastOp.arg.filter) > 0 =>
               records = { r \in lastOp.before : ~(AgeThen(r) < WindowOf(lastOp.arg.filter)) }
        /\ lastOp.arg.filter = "all" => records = {}

\* clearHistoryByTimeframe('24h') has removed a record and kept one that
\* was exactly 24 hours old
C14_Witness ==
    /\ Pruned /\ lastOp.arg.filter = "24h"
    /\ \E r \in lastOp.before : AgeThen(r) < 86400000 /\ r \notin records
    /\ \E r \in lastOp.before : AgeThen(r) = 86400000 /\ r \in records

\* the operations of the explicit-init store that need the open state
NeedsOpen == { "addSearch", "getSearchHistory", "clearHistory", "clearHistoryByTimeframe" }

\* the last operation was one of them, invoked on a closed explicit-init store
InvokedClosed ==
    /\ variant \in { "init", "third" }
    /\ lastOp.op \in NeedsOpen
    /\ ~lastOp.wasOpen

\* C16: in the explicit-init store, addSearch, getSearchHistory,
\* clearHistory and clearHistoryByTimeframe invoked while the store is closed
\* (init not yet succeeded, or failed) reject with 'Database not initialized'
\* and leave the stored records unchanged.
C16_ClosedStoreRejects ==
    InvokedClosed =>
        /\ lastOp.error = "Database not initialized"
        /\ records = lastOp.before
        /\ ~dbOpen

\* addSearch has been invoked on a store that holds records and whose
\* init() has failed
C16_Witness ==
    /\ InvokedClosed /\ lastOp.op = "addSearch"
    /\ lastOp.requests > 0
    /\ lastOp.before # {}

\* the last operation was open() or init(), invoked on an open store
Reopened == lastOp.op \in { "open", "init" } /\ lastOp.wasOpen

\* C17: open()/init() is idempotent: invoked on an open store it resolves
\* with the handle the store already holds, issues no new connection request
\* to the storage engine and leaves the store open, its records unchanged.
C17_OpenIsIdempotent ==
    Reopened =>
        /\ lastOp.error = ""
        /\ handle = lastOp.handle
        /\ requests = lastOp.requests
        /\ dbOpen
        /\ records = lastOp.before

-----------------------------------------------------------------------------
(* What the specification says of the custom-bang table *)

\* C19: after any sequence of custom-bang additions and deletions from an
\* empty table, no two entries of the persisted table have the same
\* lowercased trigger: adding an existing trigger replaces the entry or is
\* rejected, it never makes a second entry.
C19_TriggersUnique ==
    \A i, j \in 1..Len(customBangs) :
        i # j => Lower(customBangs[i].t) # Lower(customBangs[j].t)

\* the trigger typed is, once trimmed and in lower case, a built-in's
CollidesWithBuiltIn(rawTrigger) ==
    \E i \in 1..Len(bangs) : Lower(bangs[i].t) = Lower(Stripped(rawTrigger))

\* a step that saves a trigger colliding with a built-in leaves the table as it was
C20_RejectsCollision ==
    \A t \in TriggerForms, u \in UrlForms :
        (SaveBang(t, u) /\ CollidesWithBuiltIn(t)) => customBangs' = customBangs

\* C20: an attempt to save a custom bang whose trigger equals, in any letter
\* case, the trigger of a built-in bang is rejected and leaves the persisted
\* custom-bang table unchanged.
C20_BuiltInTriggerRejected == [][C20_RejectsCollision]_vars

\* an entry the specification allows in the table: a trigger of one or more
\* letters and digits, a template that holds the placeholder and parses as
\* a URL once the placeholder is replaced by a test value
WellFormedEntry(b) ==
    /\ Len(b.t) > 0
    /\ \A i \in 1..Len(b.t) : b.t[i] \in Letters
    /\ \E i \in 1..Len(b.u) : b.u[i] = Placeholder
    /\ isValidUrl(Substituted(b.u, << "t", "e", "s", "t" >>))

\* C21: every entry of the persisted custom-bang table has a non-empty
\* trigger made only of letters and digits and a URL template that contains
\* the placeholder and parses as a URL once the placeholder is replaced by a
\* test value; a blank or white-space-only trigger or template is never
\* stored.
C21_EntriesWellFormed ==
    \A i \in 1..Len(customBangs) : WellFormedEntry(customBangs[i])

-----------------------------------------------------------------------------
(* What the specification says of trigger lookup and of the bang token *)

\* the resolver of revision v: the URL it computes for a "q" parameter
getBangredirectUrl(v, ls, customs, param) ==
    CASE v = "gen" -> getBangredirectUrl_gen(ls, customs, param).url
      [] v = "inline" -> getBangredirectUrl_inline(ls, customs, param).url
      [] v = "init" -> getBangredirectUrl_init(ls, customs, param).url
      [] v = "third" -> doRedirect_third(ls, customs, param).url

\* the "q" parameter with the letters of its bang token in lower case
LowerToken(param) ==
    LET s == param.text
        b == FirstBang(s, 1)
    IN  IF ~param.present \/ b = 0 THEN param
        ELSE [ param EXCEPT !.text = SubSeq(s, 1, b) \o Lower(SubSeq(s, b + 1, WordEnd(s, b)))
                                       \o SubSeq(s, WordEnd(s, b) + 1, Len(s)) ]

\* the persisted default-bang value in lower case
LowerSlot(ls) == [ ls EXCEPT !.text = Lower(@) ]

\* the custom-bang table with every trigger in lower case
LowerTriggers(customs) == [ i \in 1..Len(customs) |-> [ customs[i] EXCEPT !.t = Lower(@) ] ]

\* C22: trigger matching is case-insensitive everywhere a trigger is looked
\* up: the URL resolved for a query is the URL resolved for the same query
\* with its bang token in lower case, the stored triggers in lower case and
\* the persisted default-bang value in lower case.
C22_CaseInsensitiveLookup ==
    Loaded => searchUrl = getBangredirectUrl(variant, LowerSlot(lsDefaultBang),
                                             LowerTriggers(customBangs), LowerToken(q))

\* the query s rewritten with its bang token first: the token, then the
\* search term
TokenFirst(s) ==
    LET b == FirstBang(s, 1)
        token == SubSeq(s, b, WordEnd(s, b))
    IN  [ present |-> TRUE,
          text |-> IF TypedTerm(s) = << >> THEN token ELSE token \o << " " >> \o TypedTerm(s) ]

\* the trigger of the query's bang token is a stored one
TriggerKnown(s) ==
    HasBangToken(s) /\ CustomIndex(TypedTrigger(s)) \cup BuiltInIndex(TypedTrigger(s)) # {}

\* C23: the bang token is recognized at any position of the query: a query
\* whose first '!' followed by non-white-space starts the token of a stored
\* trigger resolves as the query that has this token first and then the
\* search term (the query without the token, outer white space trimmed), so
\* 'term !gh' and '!gh term' give the same URL.
C23_TokenAnywhere ==
    (Loaded /\ TriggerKnown(Query)) =>
        searchUrl = getBangredirectUrl(variant, lsDefaultBang, customBangs, TokenFirst(Query))

-----------------------------------------------------------------------------
(* What the specification says of the dedupe-on-write store *)

\* the last operation was an addSearch of the dedupe-on-write store that resolved
AddedDeduping ==
    /\ variant \in { "init", "third" }
    /\ lastOp.op = "addSearch" /\ lastOp.error = ""

\* the records that held the added query text before the addSearch
SameQueryBefore == { r \in lastOp.before : r.query = lastOp.arg.query }

\* C24: in the dedupe-on-write store, addSearch(q) when a record with query
\* text exactly q exists keeps the record count and that record's id and
\* only sets its timestamp to the current time; otherwise it inserts one
\* record; and no two records of the store have the same query text.
C24_DedupeOnWrite ==
    /\ variant \in { "init", "third" } =>
           \A r, o \in records : r.query = o.query => r = o
    /\ (AddedDeduping /\ SameQueryBefore # {}) =>
           /\ Cardinality(records) = Cardinality(lastOp.before)
           /\ \E r \in SameQueryBefore :
                  records = (lastOp.before \ { r })
                               \cup { [ r EXCEPT !.timestamp = lastOp.time ] }
    /\ (AddedDeduping /\ SameQueryBefore = {}) =>
           \E r \in records :
               /\ records = lastOp.before \cup { r }
               /\ \A o \in lastOp.before : o.id # r.id
               /\ r.query = lastOp.arg.query
               /\ r.timestamp = lastOp.time

\* addSearch has been invoked, later than the record was written, with a
\* query text the store held next to other records
C24_Witness ==
    /\ AddedDeduping
    /\ Cardinality(lastOp.before) > 1
    /\ \E r \in SameQueryBefore :
           /\ r.timestamp < lastOp.time
           /\ [ r EXCEPT !.timestamp = lastOp.time ] \in records

\* the elements of a sequence
Range(s) == { s[i] : i \in 1..Len(s) }

\* the last operation was a getSearchHistory that resolved
HistoryRead == lastOp.op = "getSearchHistory" /\ lastOp.error = ""

\* C25: at one call time and for each window w of '1h', '24h', 'week', the
\* records clearHistoryByTimeframe(w) removes are exactly the records
\* getSearchHistory(w) returns, a record exactly one window old included
\* (both leave it out): getSearchHistory(w) on the pruned store is empty.
C25_SamePartition ==
    /\ (Pruned /\ WindowOf(lastOp.arg.filter) > 0) =>
           /\ lastOp.before \ records
                = Range(getSearchHistory(lastOp.before, lastOp.arg.filter, lastOp.time))
           /\ getSearchHistory(records, lastOp.arg.filter, lastOp.time) = << >>
    /\ (HistoryRead /\ WindowOf(lastOp.arg.filter) > 0) =>
           Returned = lastOp.before
                        \ clearHistoryByTimeframe(lastOp.before, lastOp.arg.filter, lastOp.time)

\* clearHistoryByTimeframe('1h') has removed a record and kept one that was
\* exactly one hour old
C25_Witness ==
    /\ Pruned /\ lastOp.arg.filter = "1h"
    /\ \E r \in lastOp.before : r \notin records
    /\ \E r \in records : AgeThen(r) = 3600000

-----------------------------------------------------------------------------
(* What the specification says of concurrent operations of the store *)

\* the open() started by the constructor has not completed
FirstOpenInFlight ==
    calls # << >> /\ calls[1].op = "constructor" /\ calls[1].stage = "opening"

\* the operations whose open() has resolved with a handle
GotHandle == { i \in 1..Len(calls) : calls[i].handle # 0 }

\* C26: for every interleaving of the open() started by the SearchHistoryDB
\* constructor with open() calls made by addSearch, getSearches,
\* clearHistory or deleteSearch before the first open has completed, at most
\* one connection request is issued to the storage engine and all callers
\* receive the same handle.
C26_OneConnectionRequest ==
    variant \in { "gen", "inline" } =>
        /\ FirstOpenInFlight => requests <= 1
        /\ \A i, j \in GotHandle : calls[i].handle = calls[j].handle

\* operation i is a clearHistoryByTimeframe that has read the store and has
\* not resolved
MidPrune(i) ==
    /\ calls[i].op = "clearHistoryByTimeframe"
    /\ calls[i].stage = "queued"
    /\ calls[i].step \in { "read", "cleared" }

\* in this step a request callback of operation j's transaction runs
Progressed(j) == calls[j].stage = "queued" /\ calls'[j] # calls[j]

\* what a prune that saw `seen` at `time` has to leave in the store
LeftByPrune(seen, f, time) ==
    IF f = "all" THEN {}
    ELSE { r \in seen : ~(time - r.timestamp < WindowOf(f)) }

\* a step taken while a prune is between its read and its last reinsert is
\* a step of that prune, which clears the store it has read and resolves
\* with exactly the records it has to keep
C27_PruneStep ==
    \A i \in 1..Len(calls) :
        MidPrune(i) =>
            /\ \A j \in 1..Len(calls) : Progressed(j) => j = i
            /\ Progressed(i) =>
                   /\ calls[i].step = "read" => records = calls[i].seen
                   /\ calls'[i].stage = "done" =>
                          records' = LeftByPrune(calls[i].seen, calls[i].arg.filter,
                                                 calls[i].time)

\* C27: clearHistoryByTimeframe performs its read-all, clear and reinsert
\* steps inside one read-write transaction: an addSearch or getSearchHistory
\* interleaved with it runs before the prune's read or after its last
\* reinsert, never on the emptied intermediate store, and no record added
\* concurrently is lost by the reinsert.
C27_PruneIsOneTransaction == [][C27_PruneStep]_vars

\* a prune has emptied a store that held a record it keeps, while the
\* transactions of an addSearch and of a getSearchHistory wait behind its own
C27_Witness ==
    /\ txs # << >> /\ MidPrune(Head(txs))
    /\ calls[Head(txs)].step = "cleared"
    /\ calls[Head(txs)].kept # {}
    /\ records = {}
    /\ \E j, k \in 2..Len(txs) :
           /\ calls[txs[j]].op = "addSearch"
           /\ calls[txs[k]].op = "getSearchHistory"

-----------------------------------------------------------------------------
(* What the specification says of the awaited history write *)

\* C28: in the revision that awaits the history write, the page navigates
\* only after addSearch for the query has resolved: whenever a navigation
\* has been issued, no write is pending and the store holds the record of
\* the query, written no later than now.
C28_RedirectAfterWrite ==
    (variant = "init" /\ navigatedTo # Null) =>
        /\ pending = << >>
        /\ Len(addCalls) = 1
        /\ \E r \in records : r.query = Query /\ r.timestamp <= now

\* the page has navigated for a query whose record was written a tick after
\* the call
C28_Witness ==
    /\ variant = "init" /\ pc = "done"
    /\ q = [ present |-> TRUE, text |-> << "!", "g", " ", "c" >> ]
    /\ navigatedTo = << GoogleSearch, "c" >>
    /\ \E r \in records : r.query = << "!", "g", " ", "c" >> /\ r.timestamp = 2

-----------------------------------------------------------------------------
(* What the specification says of the dashboard's history list *)

\* the last operation was a click on the dashboard's clear-history button
Cleared == lastOp.op = "clear-history"

\* the record is one the list shows under the active filters: inside the
\* time window when the list was drawn, and of the selected bang
MatchesFilters(r) ==
    /\ WindowOf(lastOp.arg.filter) > 0 => AgeThen(r) <= WindowOf(lastOp.arg.filter)
    /\ lastOp.arg.bang # << "a", "l", "l" >> => r.bangUsed = lastOp.arg.bang

\* C29: the dashboard's clear-history action removes every stored record
\* when the time filter and the bang filter are both 'all'; otherwise it
\* removes every stored record that matches the active time window and bang
\* filter and leaves every other record unchanged.
C29_ClearRemovesWhatMatches ==
    Cleared => records = { r \in lastOp.before : ~MatchesFilters(r) }

\* C30: replaying a history record reproduces the original redirect: when
\* the page load for a non-empty query has redirected to URL u and called
\* addSearch(query, bangUsed), generateSearchUrl(query, bangUsed) with the
\* bang tables unchanged, as the click on the history item invokes it,
\* returns u.
C30_ReplayReproducesRedirect ==
    (Loaded /\ variant = "gen" /\ navigatedTo # Null /\ addCalls # << >>) =>
        generateSearchUrl(lsDefaultBang, customBangs, addCalls[1].query, addCalls[1].bangUsed)
            = navigatedTo

====
